---- MODULE Spec2Model ----
(***************************************************************************)
(* Model of the chat backend AbhinandanSW/ai-bot-be: the message store     *)
(* (app/db.py), the generation client (app/gemini.py), the streaming       *)
(* service that runs one chat turn (app/stream.py) and the chat routes     *)
(* (app/chat.py).                                                          *)
(*                                                                         *)
(* Strings are sequences of characters (identifiers) or of text tokens     *)
(* (message and reply text), so that startswith, replace and += are        *)
(* computed as Python computes them.                                       *)
(***************************************************************************)
EXTENDS Integers, Sequences, FiniteSets, TLC

\* ------------------------------------------------------------------ bounds
MaxRows == 3       \* rows in the messages table at start
MaxTs == 2         \* distinct created_at instants 1..MaxTs
MaxLimit == 2      \* explicit ?limit= values 1..MaxLimit of GET /chat/history
MaxChunks == 3     \* chunks the provider yields for one reply

\* -------------------------------------------------------- program constants
DefaultLimit == 50     \* db.py: limit: int = 50

\* ----------------------------------------------------------------- strings
StartsWith(s, p) == Len(s) >= Len(p) /\ SubSeq(s, 1, Len(p)) = p

\* str.replace(old, new): non-overlapping occurrences, left to right, one pass
RECURSIVE Replace(_, _, _)
Replace(s, old, new) ==
    IF Len(s) < Len(old) THEN s
    ELSE IF SubSeq(s, 1, Len(old)) = old
         THEN new \o Replace(SubSeq(s, Len(old) + 1, Len(s)), old, new)
         ELSE <<Head(s)>> \o Replace(Tail(s), old, new)

Take(s, n) == SubSeq(s, 1, IF Len(s) < n THEN Len(s) ELSE n)

REQ == <<"r", "e", "q">>            \* "req"
REQ_US == <<"r", "e", "q", "_">>      \* "req_"
USCORE == <<"_">>

\* identifiers used by the requests and the stored rows
UserU == <<"u">>
IdA == <<"a">>
IdReqA == REQ_US \o IdA                    \* "req_a"
IdUA == UserU \o USCORE \o IdA           \* "u_a"
IdUReqA == UserU \o USCORE \o IdReqA     \* "u_req_a"
SessionS == <<"s">>

Roles == {"user", "assistant", "system"}

\* text tokens: prose, whitespace, a fence of three backticks, a declaration
TokHi == "hi"
TokSpace == " "
TokFence == "FENCE3"      \* three backticks
TokDef == "def add"       \* "def add(": a declaration the patterns match
TokHuge == "x..x"         \* a run of MaxMessageLength + 1 letters

\* -------------------------------------------------------------- the store
\* One row of table messages (db.py save_message: data).
Row(tid, uid, role, content, ts) ==
    [thread_id |-> tid, user_id |-> uid, role |-> role,
     content |-> content, created_at |-> ts]

RECURSIVE InsertByCreatedAt(_, _)
InsertByCreatedAt(s, r) ==
    IF s = <<>> THEN <<r>>
    ELSE IF r.created_at < Head(s).created_at THEN <<r>> \o s
         ELSE <<Head(s)>> \o InsertByCreatedAt(Tail(s), r)

\* .order("created_at", desc=False)
RECURSIVE OrderByCreatedAt(_)
OrderByCreatedAt(s) ==
    IF s = <<>> THEN <<>>
    ELSE InsertByCreatedAt(OrderByCreatedAt(SubSeq(s, 1, Len(s) - 1)), s[Len(s)])

\* client.table("messages").select(all columns).eq("thread_id", tid)
\*       .order("created_at", desc=False).limit(limit).execute().data
select_messages(msgs, tid, limit) ==
    LET Eq(r) == r.thread_id = tid
    IN  Take(OrderByCreatedAt(SelectSeq(msgs, Eq)), limit)

\* ChatMessage(role=..., content=..., timestamp=fromisoformat(created_at))
ChatMessage(row) ==
    [role |-> row.role, content |-> row.content, timestamp |-> row.created_at]

ToChatMessages(rows) == [i \in 1..Len(rows) |-> ChatMessage(rows[i])]

RECURSIVE InsertByTimestamp(_, _)
InsertByTimestamp(s, m) ==
    IF s = <<>> THEN <<m>>
    ELSE IF m.timestamp < Head(s).timestamp THEN <<m>> \o s
         ELSE <<Head(s)>> \o InsertByTimestamp(Tail(s), m)

RECURSIVE SortByTimestamp(_)
SortByTimestamp(s) ==
    IF s = <<>> THEN <<>>
    ELSE InsertByTimestamp(SortByTimestamp(SubSeq(s, 1, Len(s) - 1)), s[Len(s)])

\* faulty variant: the merged list is returned as appended, without the sort
sort_messages_unsorted(ms) == ms

\* messages.sort(key=lambda msg: msg.timestamp)   (stable)
sort_messages(ms) == SortByTimestamp(ms)

\* get_conversation_history(thread_id, limit), the path with no exception
get_conversation_history(msgs, thread_id, limit) ==
    LET result == select_messages(msgs, thread_id, limit)
        thread_id_assistant == Replace(thread_id, REQ_US, <<>>)
        assitant_result == select_messages(msgs, thread_id_assistant, limit)
    IN  sort_messages(ToChatMessages(result) \o ToChatMessages(assitant_result))

\* ------------------------------------------------- the generation client
\* _detect_code_artifact: re.search of the ten patterns over the text.  Over
\* the token alphabet the first pattern (six backticks in a row) matches two
\* adjacent fence tokens, the "def" pattern matches the declaration token,
\* and no pattern matches prose or whitespace.
detect_code_artifact(content) ==
    \/ \E i \in 1..Len(content) : content[i] = TokDef
    \/ \E i \in 1..(Len(content) - 1) :
           content[i] = TokFence /\ content[i + 1] = TokFence

\* one turn of the provider context: {"role": ..., "parts": [content]}
GeminiMessage(role, content) == [role |-> role, parts |-> <<content>>]

\* faulty variant: every message is forwarded, system messages as user turns
RECURSIVE prepare_conversation_history_all(_)
prepare_conversation_history_all(ms) ==
    IF ms = <<>> THEN <<>>
    ELSE <<GeminiMessage(IF Head(ms).role = "assistant" THEN "model" ELSE "user",
                         Head(ms).content)>>
             \o prepare_conversation_history_all(Tail(ms))

\* gemini.py _prepare_conversation_history: user and assistant messages
\* become "user" and "model" turns, any other message is skipped
RECURSIVE prepare_conversation_history(_)
prepare_conversation_history(ms) ==
    IF ms = <<>> THEN <<>>
    ELSE LET m == Head(ms)
             rest == prepare_conversation_history(Tail(ms))
         IN  IF m.role = "user" THEN <<GeminiMessage("user", m.content)>> \o rest
             ELSE IF m.role = "assistant"
                  THEN <<GeminiMessage("model", m.content)>> \o rest
                  ELSE rest

NoError == "None"

\* the dict yielded by stream_response, and StreamChunk built from it
Fragment(type, content, tid, sid, has_artifact, error_message) ==
    [type |-> type, content |-> content, thread_id |-> tid, session_id |-> sid,
     has_artifact |-> has_artifact, error_message |-> error_message]

IsTerminal(f) == f.type \in {"completion", "error"}

\* What the provider does for one reply: whether start_chat/send_message
\* raises, then the chunks it yields; reading a chunk may raise.
ChunkTexts == {<<>>, <<TokHi>>, <<TokFence>>, <<TokDef>>}
ProviderItems ==
    [raises : {FALSE}, text : ChunkTexts] \cup [raises : {TRUE}, text : {<<>>}]
ProviderBehaviours ==
    [start_raises : BOOLEAN,
     items : UNION {[1..n -> ProviderItems] : n \in 0..MaxChunks}]

\* ------------------------------------------------------------------ state
VARIABLES
    messages,        \* table messages, in insertion order
    pc,              \* position of the chat turn in stream_chat_response
    request,         \* the ChatRequest of the turn
    history,         \* stream.py: history
    events,          \* the server-sent events yielded to the transport
    exc,             \* the exception caught at stream.py:71, or NoError
    store_at_start,  \* table messages when the turn started
    http,            \* status of the last HTTP response (0: none yet)
    resp,            \* body of the last GET /chat/history response
    provider,        \* what the provider does for this reply
    gen_args,        \* arguments of gemini_client.stream_response
    gpc,             \* position of the stream_response generator
    gidx,            \* next provider chunk to read
    g_full_response, \* gemini.py: full_response
    chat_context,    \* history given to model.start_chat
    fragments,       \* the dicts yielded by stream_response so far
    local_thread_id, \* stream.py: the local thread_id of the turn
    threads,         \* table threads, keyed by thread_id
    del,             \* outcome of the last DELETE /chat/threads request
    listing,         \* body of the last GET /chat/threads response
    calls,           \* the save_message calls, one per caller
    last_upserter,   \* per thread, the caller whose upsert ran last
    faults,          \* store requests of the turn that fail
    turns,           \* the chat turns in progress at once, one per request
    rate_limiter     \* rate_limiter.py: the RateLimiter instance

turn_vars == <<pc, request, history, events, exc, store_at_start>>
gen_vars == <<gen_args, gpc, gidx, g_full_response, chat_context, fragments>>
aux_vars == <<local_thread_id, threads, del, listing, calls, last_upserter,
              faults, turns, rate_limiter>>
\* aux_vars without faults
rest_vars == <<local_thread_id, threads, del, listing, calls, last_upserter,
               turns, rate_limiter>>
vars == <<messages, turn_vars, http, resp, provider, gen_vars, aux_vars>>

NoRequest == [message |-> <<>>, thread_id |-> <<>>, session_id |-> <<>>]
NoResp == [thread_id |-> <<>>, user_id |-> <<>>, limit |-> 0, messages |-> <<>>,
           called |-> FALSE, failed |-> FALSE]
NoArgs == [current_message |-> <<>>, conversation_history |-> <<>>,
           thread_id |-> <<>>, session_id |-> <<>>]
NoProvider == [start_raises |-> FALSE, items |-> <<>>]

\* Rows already in the external store when the service starts.  A turn
\* writes the user message under the prefixed id (stream.py:30) and the reply
\* under the id of the request (stream.py:58), so the rows of a conversation
\* are user rows under "u_req_a" and assistant rows under "u_a".
StoredThreadIds == {IdUA, IdUReqA}
RoleOf(tid) == IF tid = IdUReqA THEN "user" ELSE "assistant"
RoleContent(role) == IF role = "user" THEN <<TokHi>> ELSE <<TokDef>>
InitialRows ==
    {Row(tid, UserU, RoleOf(tid), RoleContent(RoleOf(tid)), ts) :
        tid \in StoredThreadIds, ts \in 1..MaxTs}
\* the rows of the table differ from one another
InitialStores ==
    {s \in UNION {[1..n -> InitialRows] : n \in 0..MaxRows} :
        \A i, j \in 1..Len(s) : i # j => s[i] # s[j]}

Unbound == [bound |-> FALSE, value |-> <<>>]
EmptyThreads == [t \in {} |-> 0]
NoDel == [called |-> FALSE, user_id |-> <<>>, thread_id |-> <<>>,
          messages_attempted |-> FALSE, messages_failed |-> FALSE,
          threads_attempted |-> FALSE, success |-> FALSE, removed |-> <<>>]
NoListing == [called |-> FALSE, user_id |-> <<>>, threads |-> <<>>]
NoCalls == [c \in {} |-> 0]
NoFaults == [history_load |-> FALSE, reply_save |-> FALSE]
NoTurns == [t \in {} |-> 0]
\* no RateLimiter in use: no route calls check_rate_limit
NoLimiter == [requests |-> [c \in {} |-> <<>>]]

AuxIdle ==
    /\ local_thread_id = Unbound
    /\ threads = EmptyThreads
    /\ del = NoDel
    /\ listing = NoListing
    /\ calls = NoCalls
    /\ last_upserter = NoCalls
    /\ faults = NoFaults
    /\ turns = NoTurns
    /\ rate_limiter = NoLimiter

GenIdle ==
    /\ gen_args = NoArgs
    /\ gpc = "not_created"
    /\ gidx = 1
    /\ g_full_response = <<>>
    /\ chat_context = <<>>
    /\ fragments = <<>>

TurnIdle ==
    /\ pc = "idle"
    /\ request = NoRequest
    /\ history = <<>>
    /\ events = <<>>
    /\ exc = NoError
    /\ store_at_start = <<>>

Init ==
    /\ messages \in InitialStores
    /\ TurnIdle
    /\ http = 0
    /\ resp = NoResp
    /\ provider = NoProvider
    /\ GenIdle
    /\ AuxIdle

\* ---------------------------------------------------------- chat routes
\* str.strip() over tokens: leading and trailing whitespace removed
RECURSIVE LStrip(_)
LStrip(s) == IF s # <<>> /\ Head(s) = TokSpace THEN LStrip(Tail(s)) ELSE s
RECURSIVE RStrip(_)
RStrip(s) ==
    IF s # <<>> /\ s[Len(s)] = TokSpace THEN RStrip(SubSeq(s, 1, Len(s) - 1)) ELSE s
Strip(s) == RStrip(LStrip(s))

\* ChatRequest.message: Field(min_length=1, max_length=50000)
MaxMessageLength == 50000

\* len() of a text: the characters of its tokens
TokenLength(t) ==
    CASE t = TokHi -> 2
      [] t = TokSpace -> 1
      [] t = TokFence -> 3
      [] t = TokDef -> 8
      [] t = TokHuge -> MaxMessageLength + 1
      [] OTHER -> 1
RECURSIVE StrLen(_)
StrLen(s) == IF s = <<>> THEN 0 ELSE TokenLength(Head(s)) + StrLen(Tail(s))

RequestMessages == {<<TokHi>>, <<TokSpace>>, <<>>, <<TokHuge>>}
RequestThreadIds == {IdUA, IdUReqA, IdReqA}
\* provider behaviours a turn may meet: a reply of two chunks, a failure at
\* start, a failure after one chunk
TurnProviders ==
    {[start_raises |-> FALSE,
      items |-> <<[raises |-> FALSE, text |-> <<TokHi>>],
                  [raises |-> FALSE, text |-> <<TokDef>>]>>],
     [start_raises |-> TRUE, items |-> <<>>],
     [start_raises |-> FALSE,
      items |-> <<[raises |-> FALSE, text |-> <<TokHi>>],
                  [raises |-> TRUE, text |-> <<>>]>>]}

TurnOver == pc \in {"idle", "done", "cancelled"}

\* faulty variant: the route does not look at the stripped message
request_status_no_strip(m) ==
    IF StrLen(m) < 1 \/ StrLen(m) > MaxMessageLength THEN 422 ELSE 200

\* The status POST /chat/stream answers with: the body is validated against
\* ChatRequest before the route runs (422), then the route refuses a message
\* that is empty once stripped (chat.py:22-23, 400).
request_status(m) ==
    IF StrLen(m) < 1 \/ StrLen(m) > MaxMessageLength THEN 422
    ELSE IF Strip(m) = <<>> THEN 400
    ELSE 200

\* the store faults a turn may meet: the save of the reply may fail when the
\* provider gives a reply
TurnFaults(p) ==
    {[history_load |-> FALSE, reply_save |-> f] :
        f \in IF ~p.start_raises /\ \A i \in 1..Len(p.items) : ~p.items[i].raises
              THEN BOOLEAN ELSE {FALSE}}

\* POST /chat/stream (chat.py stream_chat): an invalid or empty message is
\* refused, otherwise the streaming response for the turn is created.
StreamChat ==
    /\ TurnOver
    /\ \E m \in RequestMessages, tid \in RequestThreadIds, p \in TurnProviders :
          /\ request' = [message |-> m, thread_id |-> tid,
                         session_id |-> SessionS]
          /\ http' = request_status(m)
          /\ IF request_status(m) # 200
             THEN /\ pc' = "idle"
                  /\ provider' = NoProvider
                  /\ faults' = NoFaults
             ELSE /\ pc' = "start"
                  /\ provider' = p
                  /\ faults' \in TurnFaults(p)
    /\ store_at_start' = messages
    /\ history' = <<>>
    /\ events' = <<>>
    /\ exc' = NoError
    /\ resp' = NoResp
    /\ UNCHANGED <<rest_vars, messages, gen_vars>>

\* GET /chat/history/{thread_id}?limit= (chat.py get_chat_history) for the
\* authenticated user; get_conversation_history returns [] when the store
\* fails.  Requests are served one after the other: the turn variables
\* describe the request being served and are cleared by the next one.
HistoryThreadIds == {IdA, IdReqA, IdUReqA}
Limits == (1..MaxLimit) \cup {DefaultLimit}

GetChatHistoryFor(user_id, tids, limits) ==
    /\ TurnOver
    /\ \E tid0 \in tids, limit \in limits, fails \in BOOLEAN :
          LET thread_id == IF StartsWith(tid0, user_id) THEN tid0
                           ELSE user_id \o USCORE \o tid0
          IN  resp' = [thread_id |-> thread_id, user_id |-> user_id,
                       limit |-> limit, called |-> TRUE, failed |-> fails,
                       messages |-> IF fails THEN <<>>
                                    ELSE get_conversation_history(messages,
                                                                  thread_id, limit)]
    /\ http' = 200
    /\ pc' = "idle"
    /\ request' = NoRequest
    /\ history' = <<>>
    /\ events' = <<>>
    /\ exc' = NoError
    /\ store_at_start' = <<>>
    /\ provider' = NoProvider
    /\ faults' = NoFaults
    /\ UNCHANGED <<rest_vars, messages, gen_vars>>

GetChatHistory == GetChatHistoryFor(UserU, HistoryThreadIds, Limits)

\* ------------------------------------------ one chat turn (app/stream.py)
\* stream.py:24  history = await get_conversation_history(request.thread_id)
\* get_conversation_history catches every store exception and returns [].
GetHistory ==
    /\ pc = "start"
    /\ \E fails \in BOOLEAN :
          /\ history' = IF fails THEN <<>>
                        ELSE get_conversation_history(messages,
                                                      request.thread_id,
                                                      DefaultLimit)
          /\ faults' = [faults EXCEPT !.history_load = fails]
    /\ pc' = "normalize"
    /\ UNCHANGED <<rest_vars, messages, request, events, exc, store_at_start, http, resp,
                   provider, gen_vars>>

\* The name thread_id is assigned at stream.py:27, so it is a local of the
\* generator, and it is read before any assignment on both paths: on the
\* right-hand side of line 27 when request.thread_id lacks the prefix, as
\* the first argument of save_message at line 30 when it carries it.  Both
\* reads raise UnboundLocalError, which the handler at line 71 catches.
UnboundAtNormalize == "UnboundLocalError at stream.py:27"
UnboundAtSave == "UnboundLocalError at stream.py:30"
ExcMessage(e) ==
    IF e \in {UnboundAtNormalize, UnboundAtSave}
    THEN "cannot access local variable 'thread_id'"
    ELSE e

\* stream.py:26-35  thread-id normalisation and the call of save_message
NormalizeThreadId ==
    /\ pc = "normalize"
    /\ exc' = IF ~StartsWith(request.thread_id, REQ) THEN UnboundAtNormalize
              ELSE UnboundAtSave
    /\ pc' = "except"
    /\ UNCHANGED <<aux_vars, messages, request, history, events, store_at_start, http,
                   resp, provider, gen_vars>>

\* faulty variant: the handler logs the exception and sends nothing
ExceptYieldSilent ==
    /\ pc = "except"
    /\ pc' = "yielded"
    /\ UNCHANGED <<aux_vars, messages, request, history, events, exc, store_at_start,
                   http, resp, provider, gen_vars>>

\* faulty variant: the handler also stores what the turn has of a reply
ExceptYieldSavesReply ==
    /\ pc = "except"
    /\ events' = Append(events,
                        Fragment("error", <<>>, request.thread_id,
                                 request.session_id, FALSE, ExcMessage(exc)))
    /\ messages' = Append(messages,
                          Row(request.thread_id, UserU, "assistant", <<>>,
                              MaxTs + 1))
    /\ pc' = "yielded"
    /\ UNCHANGED <<aux_vars, request, history, exc, store_at_start, http, resp, provider,
                   gen_vars>>

\* faulty variant: the handler removes the rows of the thread before it
\* reports the error
ExceptYieldRollsBack ==
    /\ pc = "except"
    /\ events' = Append(events,
                        Fragment("error", <<>>, request.thread_id,
                                 request.session_id, FALSE, ExcMessage(exc)))
    /\ messages' = LET Other(r) == r.thread_id # request.thread_id
                   IN  SelectSeq(messages, Other)
    /\ pc' = "yielded"
    /\ UNCHANGED <<aux_vars, request, history, exc, store_at_start, http, resp,
                   provider, gen_vars>>

\* stream.py:71-83  except Exception: yield the error chunk
ExceptYield ==
    /\ pc = "except"
    /\ events' = Append(events,
                        Fragment("error", <<>>, request.thread_id,
                                 request.session_id, FALSE, ExcMessage(exc)))
    /\ pc' = "yielded"
    /\ UNCHANGED <<aux_vars, messages, request, history, exc, store_at_start, http, resp,
                   provider, gen_vars>>

\* faulty variant: a failed turn is run again from its first step
FinishRetries ==
    /\ pc = "yielded"
    /\ pc' = IF events # <<>> /\ events[Len(events)].type = "error" THEN "start" ELSE "done"
    /\ UNCHANGED <<aux_vars, messages, request, history, events, exc, store_at_start,
                   http, resp, provider, gen_vars>>

\* The transport resumes the generator after the event is sent; the handler
\* has nothing left to run and the response is closed.
Finish ==
    /\ pc = "yielded"
    /\ pc' = "done"
    /\ UNCHANGED <<aux_vars, messages, request, history, events, exc, store_at_start,
                   http, resp, provider, gen_vars>>

\* the exception a cancellation raises in the generator: asyncio's
\* CancelledError, which is not an Exception
Cancelled == "CancelledError"

\* faulty variant: the handler of stream.py:71 catches the cancellation too
CancelHandled ==
    /\ pc \in {"start", "yielded"}
    /\ exc' = Cancelled
    /\ pc' = "except"
    /\ UNCHANGED <<aux_vars, messages, request, history, events, store_at_start,
                   http, resp, provider, gen_vars>>

\* The client disconnects: the transport cancels the generator where it is
\* suspended, before its first step or at the yield of the event.  The
\* cancellation passes the handler of stream.py:71 and ends the generator.
Cancel ==
    /\ pc \in {"start", "yielded"}
    /\ exc' = Cancelled
    /\ pc' = "cancelled"
    /\ UNCHANGED <<aux_vars, messages, request, history, events, store_at_start,
                   http, resp, provider, gen_vars>>

Next ==
    \/ StreamChat
    \/ GetChatHistory
    \/ GetHistory
    \/ NormalizeThreadId
    \/ ExceptYield
    \/ Finish
    \/ Cancel

Spec == Init /\ [][Next]_vars

\* ---------------------- GeminiClient.stream_response, driven to its end
\* The generator is modelled for every provider behaviour; its consumer pulls
\* until the generator returns.
Msg(role, content, ts) == [role |-> role, content |-> content, timestamp |-> ts]
GenHistories ==
    {<<>>,
     <<Msg("user", <<TokHi>>, 1), Msg("assistant", <<TokDef>>, 2)>>,
     <<Msg("system", <<TokHi>>, 1), Msg("user", <<TokHi>>, 2)>>}

InitGemini ==
    /\ messages = <<>>
    /\ TurnIdle
    /\ http = 0
    /\ resp = NoResp
    /\ provider \in ProviderBehaviours
    /\ gen_args \in [current_message : {<<TokHi>>},
                     conversation_history : GenHistories,
                     thread_id : {IdReqA}, session_id : {SessionS}]
    /\ gpc = "created"
    /\ gidx = 1
    /\ g_full_response = <<>>
    /\ chat_context = <<>>
    /\ fragments = <<>>
    /\ AuxIdle

ErrorFragment(detail) ==
    Fragment("error", <<>>, gen_args.thread_id, gen_args.session_id, FALSE, detail)

\* gemini.py:74-97  prepare the history, start the chat, send the message;
\* gemini.py:124-133 turns an exception into the error fragment.
GenOpen ==
    /\ gpc = "created"
    /\ LET hist == prepare_conversation_history(gen_args.conversation_history)
                       \o <<GeminiMessage("user", gen_args.current_message)>>
       IN  chat_context' = SubSeq(hist, 1, Len(hist) - 1)
    /\ IF provider.start_raises
       THEN /\ fragments' = Append(fragments, ErrorFragment("provider error"))
            /\ gpc' = "yielded_error"
       ELSE /\ fragments' = fragments
            /\ gpc' = "iterating"
    /\ UNCHANGED <<aux_vars, messages, turn_vars, http, resp, provider, gen_args, gidx,
                   g_full_response>>

\* faulty variant: the exception is caught inside the loop, which then goes on
GenNextChunkGoesOn ==
    /\ gpc = "iterating"
    /\ gidx <= Len(provider.items)
    /\ LET item == provider.items[gidx]
       IN  IF item.raises
           THEN /\ fragments' = Append(fragments, ErrorFragment("provider error"))
                /\ g_full_response' = g_full_response
           ELSE IF item.text = <<>>
           THEN UNCHANGED <<fragments, g_full_response>>
           ELSE /\ g_full_response' = g_full_response \o item.text
                /\ fragments' = Append(fragments,
                       Fragment("delta", item.text, gen_args.thread_id,
                                gen_args.session_id,
                                detect_code_artifact(item.text), NoError))
    /\ gidx' = gidx + 1
    /\ UNCHANGED <<aux_vars, messages, turn_vars, http, resp, provider, gen_args, gpc,
                   chat_context>>

\* gemini.py:99-112  one pass of "for chunk in response_stream": a chunk with
\* text is accumulated and yielded as a delta, a chunk without text is
\* skipped, and an exception raised by the provider ends the loop in the
\* handler of gemini.py:124-133.
GenNextChunk ==
    /\ gpc = "iterating"
    /\ gidx <= Len(provider.items)
    /\ LET item == provider.items[gidx]
       IN  IF item.raises
           THEN /\ fragments' = Append(fragments, ErrorFragment("provider error"))
                /\ gpc' = "yielded_error"
                /\ g_full_response' = g_full_response
           ELSE IF item.text = <<>>
           THEN UNCHANGED <<fragments, g_full_response, gpc>>
           ELSE /\ g_full_response' = g_full_response \o item.text
                /\ fragments' = Append(fragments,
                       Fragment("delta", item.text, gen_args.thread_id,
                                gen_args.session_id,
                                detect_code_artifact(item.text), NoError))
                /\ gpc' = gpc
    /\ gidx' = gidx + 1
    /\ UNCHANGED <<aux_vars, messages, turn_vars, http, resp, provider, gen_args,
                   chat_context>>

\* faulty variant: the completion flag is computed over the last chunk only
GenCompletionFlagsLastChunk ==
    /\ gpc = "iterating"
    /\ gidx > Len(provider.items)
    /\ fragments' = Append(fragments,
           Fragment("completion", <<>>, gen_args.thread_id, gen_args.session_id,
                    detect_code_artifact(IF fragments = <<>> THEN <<>>
                                         ELSE fragments[Len(fragments)].content),
                    NoError))
    /\ gpc' = "yielded_completion"
    /\ UNCHANGED <<aux_vars, messages, turn_vars, http, resp, provider, gen_args, gidx,
                   g_full_response, chat_context>>

\* gemini.py:114-122  the provider stream is exhausted: completion signal
GenCompletion ==
    /\ gpc = "iterating"
    /\ gidx > Len(provider.items)
    /\ fragments' = Append(fragments,
           Fragment("completion", <<>>, gen_args.thread_id, gen_args.session_id,
                    detect_code_artifact(g_full_response), NoError))
    /\ gpc' = "yielded_completion"
    /\ UNCHANGED <<aux_vars, messages, turn_vars, http, resp, provider, gen_args, gidx,
                   g_full_response, chat_context>>

\* resumed after its terminal yield, the generator returns
GenReturn ==
    /\ gpc \in {"yielded_completion", "yielded_error"}
    /\ gpc' = "exhausted"
    /\ UNCHANGED <<aux_vars, messages, turn_vars, http, resp, provider, gen_args, gidx,
                   g_full_response, chat_context, fragments>>

NextGemini ==
    \/ GenOpen
    \/ GenNextChunk
    \/ GenCompletion
    \/ GenReturn

SpecGemini == InitGemini /\ [][NextGemini]_vars

\* ================================================================ claims
RowsOfRole(msgs, role) == LET Is(r) == r.role = role IN SelectSeq(msgs, Is)

\* rows the turn has added to table messages
AddedRows == SubSeq(messages, Len(store_at_start) + 1, Len(messages))

UserMessageSaved ==
    \E i \in 1..Len(AddedRows) :
        AddedRows[i].role = "user" /\ AddedRows[i].content = request.message

\* the provider reply of the turn runs to its end without a failure
ProviderCompletes(p) ==
    ~p.start_raises /\ \A i \in 1..Len(p.items) : ~p.items[i].raises

\* the provider fails after it has produced at least one chunk with text
ProviderFailsAfterDelta(p) ==
    /\ ~p.start_raises
    /\ \E i, j \in 1..Len(p.items) :
          i < j /\ ~p.items[i].raises /\ p.items[i].text # <<>> /\ p.items[j].raises

RECURSIVE ReplyText(_)
ReplyText(items) ==
    IF items = <<>> THEN <<>> ELSE Head(items).text \o ReplyText(Tail(items))

IsSorted(ms) ==
    \A i, j \in 1..Len(ms) : i < j => ms[i].timestamp <= ms[j].timestamp

LastIsError(es) == es # <<>> /\ es[Len(es)].type = "error"

\* C1: a turn whose provider reply has at least one chunk of text and ends
\* normally adds exactly one assistant row, whose content is the
\* concatenation of the chunk texts in order.  The code raises
\* UnboundLocalError before the provider is called, so the turn ends with
\* no assistant row.
C1_CompletedTurnSavesReply ==
    (pc = "done" /\ ProviderCompletes(provider) /\ ReplyText(provider.items) # <<>>)
        => /\ Len(RowsOfRole(AddedRows, "assistant")) = 1
           /\ RowsOfRole(AddedRows, "assistant")[1].content
                  = ReplyText(provider.items)

\* C2: the user message of a turn is in the store before the provider stream
\* is opened: whenever the stream has been opened, a delta has been
\* forwarded, or the turn has run to its end, the user row exists.
C2_UserSavedBeforeProvider ==
    (\/ gpc # "not_created"
     \/ \E i \in 1..Len(events) : events[i].type = "delta"
     \/ pc = "done")
        => UserMessageSaved

\* C3: no event follows a terminal event, and a turn that ends without being
\* cancelled has sent a terminal event (completion or error) as its last one.
C3_OneTerminalEventLast ==
    /\ \A i \in 1..(Len(events) - 1) : ~IsTerminal(events[i])
    /\ pc = "done" => (events # <<>> /\ IsTerminal(events[Len(events)]))

C3_Witness ==
    /\ pc = "done"
    /\ Len(events) = 1
    /\ events[1].type = "error"
    /\ exc = UnboundAtSave

\* C4: the fragments yielded by stream_response are at most one per provider
\* chunk plus one, all but the last are deltas, no terminal fragment is
\* yielded while the provider is being read, and once the generator has
\* stopped the last fragment is the one terminal fragment.
C4_OneTerminalFragmentLast ==
    /\ Len(fragments) <= Len(provider.items) + 1
    /\ \A i \in 1..(Len(fragments) - 1) : fragments[i].type = "delta"
    /\ gpc \in {"created", "iterating"}
           => \A i \in 1..Len(fragments) : ~IsTerminal(fragments[i])
    /\ gpc \in {"yielded_completion", "yielded_error", "exhausted"}
           => (fragments # <<>> /\ IsTerminal(fragments[Len(fragments)]))

\* a delta, then a chunk without text, then a failure between two chunks
C4_Witness ==
    /\ gpc = "exhausted"
    /\ Len(fragments) = 2
    /\ fragments[1].type = "delta"
    /\ fragments[2].type = "error"
    /\ Len(provider.items) = 3
    /\ provider.items[2] = [raises |-> FALSE, text |-> <<>>]

\* C5: the events of a turn are the fragments yielded by the generation
\* client, one event per fragment, in order and with the same fields.
C5_EventsAreFragments ==
    pc = "done" => events = fragments

\* C6: a turn that fails before any fragment is produced has stored the user
\* message and no assistant message.
C6_FailedTurnKeepsUserMessage ==
    (pc = "done" /\ fragments = <<>> /\ LastIsError(events))
        => /\ UserMessageSaved
           /\ RowsOfRole(AddedRows, "assistant") = <<>>

C8_ReplyPersisted ==
    (pc = "done" /\ ProviderCompletes(provider) /\ ReplyText(provider.items) # <<>>)
        => \E i \in 1..Len(messages) :
               /\ messages[i].role = "assistant"
               /\ messages[i].thread_id = request.thread_id
               /\ messages[i].content = ReplyText(provider.items)

\* C9: what get_conversation_history returns, to the turn and to the history
\* route, is in non-decreasing timestamp order.
C9_HistorySorted ==
    /\ IsSorted(history)
    /\ IsSorted(resp.messages)

\* rows under both identifiers, stored newest first, so that the two query
\* results appended are out of order
C9_Witness ==
    /\ resp.called
    /\ resp.thread_id = IdUReqA
    /\ Len(resp.messages) >= 2
    /\ resp.messages[1].role = "assistant"
    /\ \E i, j \in 1..Len(messages) :
          /\ i < j
          /\ messages[i].thread_id = IdUReqA
          /\ messages[j].thread_id = IdUA
          /\ messages[i].created_at > messages[j].created_at

\* the rows of a thread: those under the identifier and under the identifier
\* without "req_"
ThreadRows(msgs, tid) ==
    LET In(r) == r.thread_id \in {tid, Replace(tid, REQ_US, <<>>)}
    IN  SelectSeq(msgs, In)

Timestamps(ms) == [i \in 1..Len(ms) |-> ms[i].timestamp]

MostRecent(msgs, tid, limit) ==
    LET all == SortByTimestamp(ToChatMessages(ThreadRows(msgs, tid)))
    IN  SubSeq(all, Len(all) - limit + 1, Len(all))

\* C10: get_conversation_history(thread_id, limit) returns at most limit
\* messages, and for a thread of more than limit messages the limit most
\* recent ones, oldest first.
C10_AtMostLimitMostRecent ==
    (resp.called /\ ~resp.failed)
        => /\ Len(resp.messages) <= resp.limit
           /\ Len(ThreadRows(messages, resp.thread_id)) > resp.limit
                  => Timestamps(resp.messages)
                         = Timestamps(MostRecent(messages, resp.thread_id,
                                                 resp.limit))

\* =============================================== the routes on the store
\* GET /chat/history and DELETE /chat/threads called by two users on a store
\* that holds rows of both.
UserV == <<"v">>
Users == {UserU, UserV}

\* A turn of user v on thread id "u_a" stores its reply under "u_a"
\* (stream.py:58), hence rows of v under that identifier.
RouteRows ==
    {Row(IdUA, UserU, "assistant", <<TokDef>>, ts) : ts \in 1..MaxTs}
        \cup {Row(IdUReqA, UserU, "user", <<TokHi>>, ts) : ts \in 1..MaxTs}
        \cup {Row(IdUA, UserV, "assistant", <<TokDef>>, ts) : ts \in 1..MaxTs}
RouteStores == UNION {[1..n -> RouteRows] : n \in 0..MaxRows}

ThreadIdsOf(msgs) == {msgs[i].thread_id : i \in 1..Len(msgs)}

\* faulty variant: the count query without its filter on thread_id
count_messages_all_threads(msgs, tid) == Len(msgs)

count_messages(msgs, tid) ==
    LET Eq(r) == r.thread_id = tid IN Len(SelectSeq(msgs, Eq))

\* one row of table threads (db.py update_thread_metadata: thread_data)
ThreadRow(uid, sid, count, activity) ==
    [user_id |-> uid, session_id |-> sid, message_count |-> count,
     last_activity |-> activity]

\* the thread rows that the writes of the stored messages have left
ThreadsOf(msgs) ==
    [t \in ThreadIdsOf(msgs) |->
        LET Eq(r) == r.thread_id = t
            rows == SelectSeq(msgs, Eq)
        IN  ThreadRow(rows[Len(rows)].user_id, SessionS, Len(rows),
                      rows[Len(rows)].created_at)]

InitRoutes ==
    /\ messages \in RouteStores
    /\ threads = ThreadsOf(messages)
    /\ TurnIdle
    /\ http = 0
    /\ resp = NoResp
    /\ provider = NoProvider
    /\ GenIdle
    /\ local_thread_id = Unbound
    /\ del = NoDel
    /\ listing = NoListing
    /\ calls = NoCalls
    /\ last_upserter = NoCalls
    /\ faults = NoFaults
    /\ turns = NoTurns
    /\ rate_limiter = NoLimiter

\* thread ids of the route requests; the history is read with the default limit
RouteThreadIds == {IdA, IdReqA}

GetChatHistoryAny ==
    \E u \in Users : GetChatHistoryFor(u, RouteThreadIds, {DefaultLimit})

\* What the store does during delete_thread: the client is missing, the
\* delete on messages raises, the delete on threads raises, or both succeed.
DeleteOutcomes == {"no_client", "messages_raise", "threads_raise", "ok"}

Remove(f, t) == [x \in (DOMAIN f) \ {t} |-> f[x]]

\* DELETE /chat/threads/{thread_id} (chat.py delete_thread_endpoint) and
\* db.py delete_thread: one try block around both deletes, so an exception
\* of the first delete skips the second; False becomes status 500.
DeleteThreadEndpoint ==
    /\ TurnOver
    /\ \E user_id \in Users, tid0 \in RouteThreadIds, outcome \in DeleteOutcomes :
          LET thread_id == IF StartsWith(tid0, user_id) THEN tid0
                           ELSE user_id \o USCORE \o tid0
              Eq(r) == r.thread_id = thread_id
              Ne(r) == r.thread_id # thread_id
              messages_done == outcome \in {"threads_raise", "ok"}
          IN  /\ messages' = IF messages_done THEN SelectSeq(messages, Ne)
                             ELSE messages
              /\ threads' = IF outcome = "ok" THEN Remove(threads, thread_id)
                            ELSE threads
              /\ del' = [called |-> TRUE, user_id |-> user_id,
                         thread_id |-> thread_id,
                         messages_attempted |-> outcome # "no_client",
                         messages_failed |-> outcome = "messages_raise",
                         threads_attempted |-> messages_done,
                         success |-> outcome = "ok",
                         removed |-> IF messages_done THEN SelectSeq(messages, Eq)
                                     ELSE <<>>]
              /\ http' = IF outcome = "ok" THEN 200 ELSE 500
    /\ resp' = NoResp
    /\ pc' = "idle"
    /\ request' = NoRequest
    /\ history' = <<>>
    /\ events' = <<>>
    /\ exc' = NoError
    /\ store_at_start' = <<>>
    /\ provider' = NoProvider
    /\ faults' = NoFaults
    /\ UNCHANGED <<gen_vars, local_thread_id, listing, calls, last_upserter,
                   turns, rate_limiter>>

NextRoutes ==
    \/ GetChatHistoryAny
    \/ DeleteThreadEndpoint

SpecRoutes == InitRoutes /\ [][NextRoutes]_vars

\* C11: the history read after a successful delete of the same thread, with
\* no append in between, is empty.
C11_HistoryEmptyAfterDelete ==
    (/\ del.success
     /\ resp.called
     /\ ~resp.failed
     /\ resp.user_id = del.user_id
     /\ resp.thread_id = del.thread_id)
        => resp.messages = <<>>

\* C12: when the delete on messages fails, the delete on threads is still
\* attempted.
C12_BothDeletesAttempted ==
    (del.called /\ del.messages_failed) => del.threads_attempted

\* rows a history response was read from
RowsRead(msgs, tid, limit) ==
    select_messages(msgs, tid, limit)
        \o select_messages(msgs, Replace(tid, REQ_US, <<>>), limit)

\* C16: a request of one user returns and deletes rows of that user only.
C16_UsersIsolated ==
    /\ (resp.called /\ ~resp.failed)
           => \A i \in 1..Len(RowsRead(messages, resp.thread_id, resp.limit)) :
                  RowsRead(messages, resp.thread_id, resp.limit)[i].user_id
                      = resp.user_id
    /\ \A i \in 1..Len(del.removed) : del.removed[i].user_id = del.user_id

\* ============================================== save_message, concurrently
\* db.py save_message and update_thread_metadata, called by several callers
\* at once. Each call is three requests to the store: the insert, the count
\* query and the upsert; the requests of different calls interleave.
MaxCalls == 2      \* save_message calls

DbThreadIds == {IdUA, IdUReqA}

\* faulty variant: an exception of update_thread_metadata reaches save_message
metadata_error_propagates(meta_failed) == meta_failed

\* update_thread_metadata catches every exception itself (db.py:87-88):
\* nothing is raised into save_message whatever failed.
metadata_error_raised(meta_failed) == FALSE

\* the value save_message returns once update_thread_metadata is over
save_result(meta_failed) ==
    IF metadata_error_raised(meta_failed) THEN "False" ELSE "True"

Call(tid, uid, pos, inserted, failure, alone, row) ==
    [thread_id |-> tid, user_id |-> uid, pc |-> pos, inserted |-> inserted,
     failure |-> failure, message_count |-> 0, meta_failed |-> FALSE,
     upserted |-> FALSE, result |-> IF inserted THEN "pending" ELSE "False",
     alone |-> alone, row |-> row]

InFlight == {c \in DOMAIN calls : calls[c].pc # "returned"}

InitDb ==
    /\ messages = <<>>
    /\ TurnIdle
    /\ http = 0
    /\ resp = NoResp
    /\ provider = NoProvider
    /\ GenIdle
    /\ AuxIdle

\* save_message up to the insert (db.py:37-49): the client may be missing
\* and the insert may raise; both end the call with False (db.py:56-58).
SaveMessageInsert ==
    /\ Cardinality(DOMAIN calls) < MaxCalls
    /\ \E user_id \in Users, thread_id \in DbThreadIds,
          outcome \in {"no_client", "insert_raises", "ok"} :
          LET c == Cardinality(DOMAIN calls) + 1
              row == Row(thread_id, user_id, "user", <<TokHi>>,
                         Len(messages) + 1)
              ok == outcome = "ok"
          IN  /\ messages' = IF ok THEN Append(messages, row) ELSE messages
              /\ calls' =
                    [d \in DOMAIN calls \cup {c} |->
                        IF d = c
                        THEN Call(thread_id, user_id,
                                  IF ok THEN "inserted" ELSE "returned",
                                  ok, outcome, InFlight = {}, row)
                        ELSE IF ok /\ d \in InFlight
                             THEN [calls[d] EXCEPT !.alone = FALSE]
                             ELSE calls[d]]
    /\ UNCHANGED <<turn_vars, http, resp, provider, gen_vars,
                   local_thread_id, threads, del, listing, last_upserter,
                   faults, turns, rate_limiter>>

\* update_thread_metadata up to the count query (db.py:63-74); a failure is
\* logged (db.py:87-88) and save_message returns (db.py:54).
MetadataCount ==
    /\ \E c \in DOMAIN calls, failed \in BOOLEAN :
          /\ calls[c].pc = "inserted"
          /\ calls' =
                [calls EXCEPT
                    ![c] = IF failed
                           THEN [@ EXCEPT !.pc = "returned",
                                          !.meta_failed = TRUE,
                                          !.result = save_result(TRUE)]
                           ELSE [@ EXCEPT !.pc = "counted",
                                          !.message_count =
                                              count_messages(
                                                  messages,
                                                  calls[c].thread_id)]]
    /\ UNCHANGED <<messages, turn_vars, http, resp, provider, gen_vars,
                   local_thread_id, threads, del, listing, last_upserter,
                   faults, turns, rate_limiter>>

\* update_thread_metadata: the upsert (db.py:77-85), keyed by thread_id, with
\* the caller's user_id and the count read before; then save_message returns.
MetadataUpsert ==
    /\ \E c \in DOMAIN calls, failed \in BOOLEAN :
          LET call == calls[c]
              t == call.thread_id
          IN  /\ call.pc = "counted"
              /\ threads' =
                    IF failed THEN threads
                    ELSE [x \in DOMAIN threads \cup {t} |->
                             IF x = t
                             THEN ThreadRow(call.user_id, SessionS,
                                            call.message_count, Len(messages))
                             ELSE threads[x]]
              /\ last_upserter' =
                    IF failed THEN last_upserter
                    ELSE [x \in DOMAIN last_upserter \cup {t} |->
                             IF x = t THEN c ELSE last_upserter[x]]
              /\ calls' = [calls EXCEPT ![c] =
                              [@ EXCEPT !.pc = "returned",
                                        !.meta_failed = failed,
                                        !.upserted = ~failed,
                                        !.result = save_result(failed)]]
    /\ UNCHANGED <<messages, turn_vars, http, resp, provider, gen_vars,
                   local_thread_id, del, listing, faults, turns,
                   rate_limiter>>

NextDb ==
    \/ SaveMessageInsert
    \/ MetadataCount
    \/ MetadataUpsert

SpecDb == InitDb /\ [][NextDb]_vars

Returned(c) == c \in DOMAIN calls /\ calls[c].pc = "returned"

RowStored(row) == \E i \in 1..Len(messages) : messages[i] = row

\* C13: a call that has returned reports True exactly when its insert
\* succeeded; the inserted row is in the store whatever happened to the count
\* query and the upsert; a call that reports False wrote no thread row.
C13_MetadataFailureKeepsMessage ==
    \A c \in DOMAIN calls :
        /\ calls[c].inserted => RowStored(calls[c].row)
        /\ calls[c].pc = "returned" =>
              /\ calls[c].result = (IF calls[c].inserted THEN "True" ELSE "False")
              /\ calls[c].result = "False" => ~calls[c].upserted

C13_Witness ==
    \E c \in DOMAIN calls :
        /\ calls[c].pc = "returned"
        /\ calls[c].meta_failed
        /\ calls[c].result = "True"
        /\ RowStored(calls[c].row)

CallsOn(t) == {c \in DOMAIN calls : calls[c].thread_id = t}

Quiescent == DOMAIN calls # {} /\ InFlight = {}

NoMetadataFailure(t) == \A c \in CallsOn(t) : ~calls[c].meta_failed

NoFailure(t) == \A c \in CallsOn(t) : calls[c].inserted /\ ~calls[c].meta_failed

\* number of message rows with thread_id t
RowCount(t) ==
    Cardinality({i \in 1..Len(messages) : messages[i].thread_id = t})

\* C14 as stated: once every call has returned, none having failed, the
\* thread row's message_count is the number of message rows of the thread.
C14_CountEqualsRows ==
    \A t \in DbThreadIds :
        (Quiescent /\ CallsOn(t) # {} /\ NoFailure(t))
            => /\ t \in DOMAIN threads
               /\ threads[t].message_count = RowCount(t)

\* C14 amended: once every call has returned with no metadata failure, the
\* thread row's message_count is the count read by the call whose upsert ran
\* last; it is at least 1 and at most the number of message rows of the
\* thread, and it is that number when the last upserting call overlapped no
\* other call.
C14_CountOfLastUpserter ==
    \A t \in DOMAIN threads :
        (Quiescent /\ NoMetadataFailure(t))
            => /\ t \in DOMAIN last_upserter
               /\ threads[t].message_count
                      = calls[last_upserter[t]].message_count
               /\ threads[t].message_count >= 1
               /\ threads[t].message_count <= RowCount(t)
               /\ calls[last_upserter[t]].alone
                     => threads[t].message_count = RowCount(t)

C14_Witness ==
    \E t \in DOMAIN threads :
        /\ Quiescent
        /\ NoFailure(t)
        /\ Cardinality(CallsOn(t)) >= 2
        /\ threads[t].message_count < RowCount(t)

\* C15: the user_id of a thread row never changes while the row exists.
C15_ThreadOwnerNeverChanges ==
    [][\A t \in (DOMAIN threads) \cap (DOMAIN threads') :
           threads'[t].user_id = threads[t].user_id]_vars

\* ========================================================= thread listing
\* GET /chat/threads (chat.py get_user_threads) and db.py get_session_threads
\* on a store that holds threads and messages of user u.
TitleWords == 10        \* db.py: words of a title

\* a message of more than TitleWords words
LongText == <<"w1", "w2", "w3", "w4", "w5", "w6", "w7", "w8", "w9", "w10",
              "w11">>

\* str.split(): the words of a text, whitespace dropped
Split(content) == LET Word(x) == x # TokSpace IN SelectSeq(content, Word)

SessionUS == UserU \o USCORE \o SessionS      \* "u_s"

ListingRows ==
    {Row(tid, UserU, "user", c, ts) :
        tid \in {IdUA, IdUReqA}, c \in {<<TokHi, TokSpace, TokHi>>, LongText},
        ts \in 1..MaxTs}
      \cup {Row(tid, UserU, "assistant", <<TokDef>>, ts) :
               tid \in {IdUA, IdUReqA}, ts \in 1..MaxTs}
ListingStores == UNION {[1..n -> ListingRows] : n \in 0..MaxRows}

InitThreads ==
    /\ messages \in ListingStores
    /\ threads \in [ThreadIdsOf(messages) ->
                      {ThreadRow(UserU, sid, 1, ts) :
                          sid \in {SessionS, SessionUS}, ts \in 1..MaxTs}]
    /\ TurnIdle
    /\ http = 0
    /\ resp = NoResp
    /\ provider = NoProvider
    /\ GenIdle
    /\ local_thread_id = Unbound
    /\ del = NoDel
    /\ listing = NoListing
    /\ calls = NoCalls
    /\ last_upserter = NoCalls
    /\ faults = NoFaults
    /\ turns = NoTurns
    /\ rate_limiter = NoLimiter

\* the orders in which the query on table threads can return the rows of
\* user_id: by last_activity, latest first (db.py:150-156)
ThreadOrders(thr, user_id) ==
    LET mine == {t \in DOMAIN thr : thr[t].user_id = user_id}
    IN  {o \in [1..Cardinality(mine) -> mine] :
            /\ \A i, j \in DOMAIN o : i # j => o[i] # o[j]
            /\ \A i, j \in DOMAIN o :
                  i < j => thr[o[i]].last_activity >= thr[o[j]].last_activity}

ThreadSummary(t, row, title) ==
    [thread_id |-> t, user_id |-> row.user_id, session_id |-> row.session_id,
     message_count |-> row.message_count,
     last_activity |-> row.last_activity, title |-> title]

\* db.py get_session_threads, for one order of the threads query: the first
\* message row of the thread among the rows of user_id gives the title, and
\* the thread is returned only when that row is a user message.
get_session_threads(thr, msgs, user_id, order) ==
    LET Mine(r) == r.user_id = user_id
        result_messages == SelectSeq(msgs, Mine)
        First(t) == LET Eq(r) == r.thread_id = t
                    IN  SelectSeq(result_messages, Eq)
        Kept(t) == First(t) # <<>> /\ First(t)[1].role = "user"
        kept == SelectSeq(order, Kept)
    IN  [i \in 1..Len(kept) |->
            ThreadSummary(kept[i], thr[kept[i]],
                          Take(Split(First(kept[i])[1].content), TitleWords))]

\* GET /chat/threads: get_session_threads is called with the user's id
\* followed by "_" (chat.py:83-87), and the result is filtered on session_id
\* (chat.py:90-94). An exception inside get_session_threads gives [].
GetUserThreads ==
    /\ TurnOver
    /\ \E user_id \in Users, raised \in BOOLEAN :
          LET session_id_prefix == user_id \o USCORE
              Belongs(th) == StartsWith(th.session_id, session_id_prefix)
          IN  \E order \in ThreadOrders(threads, session_id_prefix) :
                 LET all_threads ==
                         IF raised THEN <<>>
                         ELSE get_session_threads(threads, messages,
                                                  session_id_prefix, order)
                 IN  listing' = [called |-> TRUE, user_id |-> user_id,
                                 threads |-> SelectSeq(all_threads, Belongs)]
    /\ http' = 200
    /\ resp' = NoResp
    /\ pc' = "idle"
    /\ request' = NoRequest
    /\ history' = <<>>
    /\ events' = <<>>
    /\ exc' = NoError
    /\ store_at_start' = <<>>
    /\ provider' = NoProvider
    /\ faults' = NoFaults
    /\ UNCHANGED <<messages, gen_vars, local_thread_id, threads, del, calls,
                   last_upserter, turns, rate_limiter>>

NextThreads == GetUserThreads

SpecThreads == InitThreads /\ [][NextThreads]_vars

\* the user messages of thread t, earliest first
UserMessagesOf(t) ==
    LET Is(r) == r.thread_id = t /\ r.role = "user"
    IN  OrderByCreatedAt(SelectSeq(messages, Is))

\* C17: the listing holds exactly the user's threads with at least one user
\* message, each titled with the first TitleWords words of its earliest
\* user message.
C17_ListingIsUsersThreads ==
    listing.called =>
        /\ {listing.threads[i].thread_id : i \in 1..Len(listing.threads)}
              = {t \in DOMAIN threads :
                    /\ threads[t].user_id = listing.user_id
                    /\ UserMessagesOf(t) # <<>>}
        /\ \A i \in 1..Len(listing.threads) :
              LET t == listing.threads[i].thread_id
              IN  UserMessagesOf(t) # <<>> =>
                     listing.threads[i].title
                        = Take(Split(UserMessagesOf(t)[1].content), TitleWords)

\* =================================================== thread-id normalisation
\* the canonical identifier of a request thread id
Canonical(tid) == IF StartsWith(tid, REQ) THEN tid ELSE REQ_US \o tid

\* C18: once the turn is past the normalisation step, its thread id is the
\* canonical form of the request's: prefixed with "req_" when the prefix is
\* missing, unchanged otherwise.
C18_NormalizationTotal ==
    pc = "except" =>
        /\ local_thread_id.bound
        /\ local_thread_id.value = Canonical(request.thread_id)

\* ================================================== the provider's context
\* the user and assistant messages of a history, in order
Participating(ms) ==
    LET Is(m) == m.role \in {"user", "assistant"} IN SelectSeq(ms, Is)

ProviderRole(role) == IF role = "user" THEN "user" ELSE "model"

\* C19: once the chat is started, its context is the user and assistant
\* messages of the history, in order, content unchanged, as "user" and "model"
\* turns; no system message and no copy of the current message is in it.
C19_ContextIsUserAssistantHistory ==
    gpc # "created" /\ gpc # "not_created" =>
        LET kept == Participating(gen_args.conversation_history)
        IN  chat_context =
                [i \in 1..Len(kept) |->
                    [role |-> ProviderRole(kept[i].role),
                     parts |-> <<kept[i].content>>]]

C19_Witness ==
    /\ gpc = "iterating"
    /\ \E i \in 1..Len(gen_args.conversation_history) :
          gen_args.conversation_history[i].role = "system"
    /\ Len(chat_context) = 1
    /\ chat_context[1].role = "user"

\* ================================================== structured content
HasCode(text) == \E i \in 1..Len(text) : text[i] \in {TokFence, TokDef}

\* C20: a delta whose text holds a fence of three backticks or a declaration
\* has has_artifact true, a delta of prose has it false, and the completion
\* fragment has it true exactly when the full reply holds such content.
C20_FencedCodeFlagged ==
    \A i \in 1..Len(fragments) :
        /\ fragments[i].type = "delta"
              => fragments[i].has_artifact = HasCode(fragments[i].content)
        /\ fragments[i].type = "completion"
              => fragments[i].has_artifact = HasCode(g_full_response)

\* ===================================================== request validation
Refused(m) == Strip(m) = <<>> \/ StrLen(m) > MaxMessageLength

\* C21: a request whose message is empty, blank or too long is answered with
\* a client error and nothing else happens: the turn is not started, the
\* history is not read, the store is as before, the provider is not called
\* and no event is sent.
C21_RefusedBeforeAnyEffect ==
    (request # NoRequest /\ Refused(request.message)) =>
        /\ http \in {400, 422}
        /\ pc = "idle"
        /\ history = <<>>
        /\ messages = store_at_start
        /\ gpc = "not_created"
        /\ events = <<>>

C21_Witness ==
    /\ request # NoRequest
    /\ request.message = <<TokSpace>>
    /\ http = 400
    /\ store_at_start # <<>>

\* ======================================================= failures of a turn
\* the exception a failed store request raises
StoreFailure == "store failure"

\* C22: when the history load of a turn fails, the turn leaves its normal
\* path with that failure and reports it in a terminal error event.
C22_LoadFailureSurfaced ==
    faults.history_load =>
        /\ pc \in {"except", "yielded", "done", "cancelled"}
        /\ exc \in {StoreFailure, Cancelled}
        /\ pc \in {"yielded", "done"} =>
              /\ LastIsError(events)
              /\ events[Len(events)].error_message = StoreFailure

\* C23: a turn whose provider reply runs to its end and whose save of the
\* reply fails still ends with the completion event and sends no error event.
C23_SaveFailureNotSurfaced ==
    (pc = "done" /\ ProviderCompletes(provider) /\ faults.reply_save) =>
        /\ events # <<>>
        /\ events[Len(events)].type = "completion"
        /\ \A i \in 1..Len(events) : events[i].type # "error"

\* C24: a cancelled turn has ended in the cancellation itself: the handler
\* has not run for it, no event reports it, the provider is not read and the
\* store is as the turn found it.
C24_CancelledTurnStops ==
    exc = Cancelled =>
        /\ pc = "cancelled"
        /\ \A i \in 1..Len(events) : events[i].error_message # Cancelled
        /\ Len(events) <= 1
        /\ gpc = "not_created"
        /\ messages = store_at_start

C24_Witness ==
    /\ pc = "cancelled"
    /\ exc = Cancelled
    /\ Len(events) = 1
    /\ store_at_start # <<>>

\* the steps of a turn, in order; a new request starts the next turn
TurnTransitions ==
    {<<"idle", "start">>, <<"start", "normalize">>, <<"normalize", "except">>,
     <<"except", "yielded">>, <<"yielded", "done">>,
     <<"start", "cancelled">>, <<"yielded", "cancelled">>,
     <<"done", "start">>, <<"cancelled", "start">>,
     <<"done", "idle">>, <<"cancelled", "idle">>}

\* C25: the steps of a turn follow one another in order and an ended turn
\* takes no further step; a turn adds at most one user row and at most one
\* assistant row, and sends at most one terminal event.  A step from an ended
\* turn to the first step is a new request, with no event sent yet.
C25_TurnIsSequential ==
    /\ [](pc # "idle" =>
              /\ Len(RowsOfRole(AddedRows, "user")) <= 1
              /\ Len(RowsOfRole(AddedRows, "assistant")) <= 1
              /\ Len(SelectSeq(events, IsTerminal)) <= 1)
    /\ [][/\ pc' # pc => <<pc, pc'>> \in TurnTransitions
          /\ pc' = "start" => (events' = <<>> /\ history' = <<>>)]_vars

C25_Witness ==
    /\ pc = "done"
    /\ history # <<>>
    /\ LastIsError(events)
    /\ Len(events) = 1

\* ======================================================= history of a thread
\* C26: a history response holds each stored row of the thread at most once.
C26_NoRowTwice ==
    (resp.called /\ ~resp.failed) =>
        Len(resp.messages) <= Len(ThreadRows(messages, resp.thread_id))

CountOf(ms, role, content) ==
    Cardinality({i \in 1..Len(ms) : ms[i].role = role /\ ms[i].content = content})

\* C27: after a turn whose provider reply ran to its end, the history of the
\* same thread id, as the next turn loads it, holds the user message and the
\* reply of the turn once more each than the history the turn started from.
C27_NextTurnLoadsBoth ==
    (pc = "done" /\ ProviderCompletes(provider) /\ ~faults.reply_save) =>
        LET before == get_conversation_history(store_at_start,
                                               request.thread_id, DefaultLimit)
            after == get_conversation_history(messages, request.thread_id,
                                              DefaultLimit)
            reply == ReplyText(provider.items)
        IN  /\ CountOf(after, "user", request.message)
                  = CountOf(before, "user", request.message) + 1
            /\ CountOf(after, "assistant", reply)
                  = CountOf(before, "assistant", reply) + 1

IsPrefix(s, t) == Len(s) <= Len(t) /\ SubSeq(t, 1, Len(s)) = s

\* C28: the rows the store held when a turn started are, unchanged and in
\* place, the first rows of the store at every later state of the turn.
C28_RowsAppendOnly ==
    request # NoRequest => IsPrefix(store_at_start, messages)

C28_Witness ==
    /\ pc = "cancelled"
    /\ \E i \in 1..Len(store_at_start) :
          store_at_start[i].thread_id = request.thread_id
    /\ messages = store_at_start

\* ============================================ the flag of the completion
\* C29: when a delta fragment is flagged, the completion fragment that ends
\* the sequence is flagged too.
C29_CompletionFlagCoversDeltas ==
    \A i \in 1..Len(fragments) :
        (/\ fragments[i].type = "completion"
         /\ \E j \in 1..(i - 1) :
               fragments[j].type = "delta" /\ fragments[j].has_artifact)
            => fragments[i].has_artifact

\* a flagged delta followed by a delta of prose, then the completion
C29_Witness ==
    /\ Len(fragments) = 3
    /\ fragments[1].type = "delta" /\ fragments[1].has_artifact
    /\ fragments[2].type = "delta" /\ ~fragments[2].has_artifact
    /\ fragments[3].type = "completion" /\ fragments[3].has_artifact

\* ================================================ turns running at once
\* Several POST /chat/stream requests on one thread id, each served by its
\* own stream_chat_response generator; the steps of the generators
\* interleave.  The steps are those of the single turn above.
MaxTurns == 2      \* turns in progress at once

TurnStores == {s \in InitialStores : Len(s) <= 1}

InitTurns ==
    /\ messages \in TurnStores
    /\ store_at_start = messages
    /\ pc = "idle"
    /\ request = NoRequest
    /\ history = <<>>
    /\ events = <<>>
    /\ exc = NoError
    /\ http = 0
    /\ resp = NoResp
    /\ provider = NoProvider
    /\ GenIdle
    /\ AuxIdle

Turn(req, p, pos, hist, evs, e) ==
    [request |-> req, provider |-> p, pc |-> pos, history |-> hist,
     events |-> evs, exc |-> e]

TurnsUnchanged ==
    UNCHANGED <<messages, turn_vars, http, resp, provider, gen_vars,
                local_thread_id, threads, del, listing, calls, last_upserter,
                faults, rate_limiter>>

\* chat.py stream_chat: a request on the thread id of the turns in progress
TurnRequest ==
    /\ Cardinality(DOMAIN turns) < MaxTurns
    /\ \E tid \in RequestThreadIds, p \in TurnProviders :
          /\ \A t \in DOMAIN turns : turns[t].request.thread_id = tid
          /\ turns' =
                [t \in DOMAIN turns \cup {Cardinality(DOMAIN turns) + 1} |->
                    IF t \in DOMAIN turns THEN turns[t]
                    ELSE Turn([message |-> <<TokHi>>, thread_id |-> tid,
                               session_id |-> SessionS],
                              p, "start", <<>>, <<>>, NoError)]
    /\ TurnsUnchanged

\* stream.py:24
TurnGetHistory ==
    /\ \E t \in DOMAIN turns, fails \in BOOLEAN :
          /\ turns[t].pc = "start"
          /\ turns' = [turns EXCEPT
                ![t].pc = "normalize",
                ![t].history =
                    IF fails THEN <<>>
                    ELSE get_conversation_history(
                             messages, turns[t].request.thread_id, DefaultLimit)]
    /\ TurnsUnchanged

\* stream.py:26-35: the read of the unbound local thread_id raises
TurnNormalizeThreadId ==
    /\ \E t \in DOMAIN turns :
          /\ turns[t].pc = "normalize"
          /\ turns' = [turns EXCEPT
                ![t].pc = "except",
                ![t].exc = IF ~StartsWith(turns[t].request.thread_id, REQ)
                           THEN UnboundAtNormalize ELSE UnboundAtSave]
    /\ TurnsUnchanged

\* stream.py:71-83
TurnExceptYield ==
    /\ \E t \in DOMAIN turns :
          /\ turns[t].pc = "except"
          /\ turns' = [turns EXCEPT
                ![t].pc = "yielded",
                ![t].events =
                    Append(turns[t].events,
                           Fragment("error", <<>>, turns[t].request.thread_id,
                                    turns[t].request.session_id, FALSE,
                                    ExcMessage(turns[t].exc)))]
    /\ TurnsUnchanged

\* the generator is resumed after its event and returns
TurnFinish ==
    /\ \E t \in DOMAIN turns :
          /\ turns[t].pc = "yielded"
          /\ turns' = [turns EXCEPT ![t].pc = "done"]
    /\ TurnsUnchanged

NextTurns ==
    \/ TurnRequest
    \/ TurnGetHistory
    \/ TurnNormalizeThreadId
    \/ TurnExceptYield
    \/ TurnFinish

SpecTurns == InitTurns /\ [][NextTurns]_vars

\* C30: when two turns on one thread id have both run to their end, each
\* with a provider reply that runs to its end, the store holds two more user
\* rows and two more assistant rows than before, the replies being those of
\* the two providers.
C30_ConcurrentTurnsKeepAll ==
    (/\ Cardinality(DOMAIN turns) = 2
     /\ \A t \in DOMAIN turns :
           turns[t].pc = "done" /\ ProviderCompletes(turns[t].provider))
        => /\ Len(RowsOfRole(AddedRows, "user")) = 2
           /\ Len(RowsOfRole(AddedRows, "assistant")) = 2
           /\ \A t \in DOMAIN turns :
                 \E i \in 1..Len(AddedRows) :
                    /\ AddedRows[i].role = "assistant"
                    /\ AddedRows[i].content = ReplyText(turns[t].provider.items)

\* ========================================================= rate limiter
\* rate_limiter.py RateLimiter, checked as a class: one instance, its
\* configuration taken from the settings, called for requests of several
\* clients while time passes.  check_rate_limit has no await inside, so a
\* call runs from its first statement to its last without interleaving.
MaxRequests == 2   \* settings.RATE_LIMIT_REQUESTS ranges over 1..MaxRequests
MaxWindow == 2     \* settings.RATE_LIMIT_WINDOW ranges over 1..MaxWindow
MaxClock == 3      \* time.time() ranges over 0..MaxClock
MaxGap == 1        \* time between the two clock readings of one call

NoHeader == ""
LimiterRequests ==
    {[forwarded_for |-> NoHeader, host |-> "a"],
     [forwarded_for |-> "b", host |-> "a"]}

\* _get_client_id: the forwarded address when the header is there, else the
\* host of the connection, else "unknown"
get_client_id(req) ==
    IF req.forwarded_for # NoHeader THEN req.forwarded_for
    ELSE IF req.host # NoHeader THEN req.host
    ELSE "unknown"

\* requests[client_id] of the defaultdict: the empty list for a new client
RequestsOf(rl, client_id) ==
    IF client_id \in DOMAIN rl.requests THEN rl.requests[client_id] ELSE <<>>

\* _clean_old_requests: the timestamps newer than time.time() - window_size
clean_old_requests(times, now, window_size) ==
    LET Newer(req_time) == req_time > now - window_size
    IN  SelectSeq(times, Newer)

\* faulty variant: the limit is reached one request too late
over_limit_late(n, max_requests) == n > max_requests

\* rate_limiter.py:47  len(self.requests[client_id]) >= self.max_requests
over_limit(n, max_requests) == n >= max_requests

\* the last n entries of a list
LastAdmitted(a, n) ==
    IF Len(a) <= n THEN a ELSE SubSeq(a, Len(a) - n + 1, Len(a))

InitLimiter ==
    /\ messages = <<>>
    /\ TurnIdle
    /\ http = 0
    /\ resp = NoResp
    /\ provider = NoProvider
    /\ GenIdle
    /\ local_thread_id = Unbound
    /\ threads = EmptyThreads
    /\ del = NoDel
    /\ listing = NoListing
    /\ calls = NoCalls
    /\ last_upserter = NoCalls
    /\ faults = NoFaults
    /\ turns = NoTurns
    /\ rate_limiter \in
          [requests : {[c \in {} |-> <<>>]},
           max_requests : 1..MaxRequests,
           window_size : 1..MaxWindow,
           clock : {0},
           status : {0},
           client_id : {NoHeader},
           current_time : {0},
           admitted : {[c \in {} |-> <<>>]},
           cleaned_at : {[c \in {} |-> 0]}]

\* check_rate_limit (rate_limiter.py:38-60): current_time is read first, then
\* _clean_old_requests reads the clock again; the request is refused with
\* 429 when the cleaned list is full, else current_time is appended.
\* admitted keeps, for each client, the times of its last max_requests + 1
\* admitted requests, and cleaned_at the clock reading of the purge of the
\* last of them.
CheckRateLimit ==
    /\ \E req \in LimiterRequests, current_time \in rate_limiter.clock..MaxClock :
          \E cleaned_at \in current_time..(current_time + MaxGap) :
             LET client_id == get_client_id(req)
                 cleaned == clean_old_requests(RequestsOf(rate_limiter, client_id),
                                               cleaned_at,
                                               rate_limiter.window_size)
                 refused == over_limit(Len(cleaned), rate_limiter.max_requests)
                 clients == DOMAIN rate_limiter.requests \cup {client_id}
                 before == IF client_id \in DOMAIN rate_limiter.admitted
                           THEN rate_limiter.admitted[client_id] ELSE <<>>
             IN  /\ cleaned_at <= MaxClock
                 /\ rate_limiter' =
                       [rate_limiter EXCEPT
                           !.requests =
                               [c \in clients |->
                                   IF c # client_id THEN rate_limiter.requests[c]
                                   ELSE IF refused THEN cleaned
                                   ELSE Append(cleaned, current_time)],
                           !.admitted =
                               [c \in clients |->
                                   IF c # client_id
                                   THEN rate_limiter.admitted[c]
                                   ELSE IF refused THEN before
                                   ELSE LastAdmitted(Append(before, current_time),
                                                     rate_limiter.max_requests + 1)],
                           !.cleaned_at =
                               [c \in clients |->
                                   IF c = client_id /\ ~refused THEN cleaned_at
                                   ELSE IF c \in DOMAIN rate_limiter.cleaned_at
                                   THEN rate_limiter.cleaned_at[c]
                                   ELSE 0],
                           !.clock = cleaned_at,
                           !.status = IF refused THEN 429 ELSE 200,
                           !.client_id = client_id,
                           !.current_time = current_time]
    /\ UNCHANGED <<messages, turn_vars, http, resp, provider, gen_vars,
                   local_thread_id, threads, del, listing, calls, last_upserter,
                   faults, turns>>

NextLimiter == CheckRateLimit

SpecLimiter == InitLimiter /\ [][NextLimiter]_vars

\* after a call, the list of every client is within the limit and the list of
\* the caller holds only timestamps newer than current_time - window_size
ListsWithinLimit ==
    /\ \A c \in DOMAIN rate_limiter.requests :
          Len(rate_limiter.requests[c]) <= rate_limiter.max_requests
    /\ rate_limiter.status # 0 =>
          \A i \in 1..Len(rate_limiter.requests[rate_limiter.client_id]) :
              rate_limiter.requests[rate_limiter.client_id][i]
                  > rate_limiter.current_time - rate_limiter.window_size

\* C31 as stated: of the admitted requests of a client, no max_requests + 1
\* have times less than window_size apart, and the lists are within the
\* limit and hold recent timestamps only.
C31_AtMostMaxPerWindow ==
    /\ ListsWithinLimit
    /\ \A c \in DOMAIN rate_limiter.admitted :
          LET a == rate_limiter.admitted[c]
          IN  \A i \in 1..(Len(a) - rate_limiter.max_requests) :
                 a[i + rate_limiter.max_requests] - a[i]
                     >= rate_limiter.window_size

\* what check_rate_limit does keep (C31, with the window measured from the
\* clock reading of the purge instead of the time of the request):
\* of any max_requests + 1 admitted requests of a client, the last was purged
\* at least window_size after the time of the first; the lists are within
\* the limit and hold recent timestamps only; a refused call adds no
\* timestamp, and no call changes the list of another client.
C31_AtMostMaxPerPurgeWindow ==
    /\ [](/\ ListsWithinLimit
          /\ \A c \in DOMAIN rate_limiter.admitted :
                LET a == rate_limiter.admitted[c]
                IN  \A i \in 1..(Len(a) - rate_limiter.max_requests) :
                       rate_limiter.cleaned_at[c] - a[i]
                           >= rate_limiter.window_size)
    /\ [][/\ \A c \in DOMAIN rate_limiter.requests :
                c # rate_limiter'.client_id
                    => rate_limiter'.requests[c] = rate_limiter.requests[c]
          /\ rate_limiter'.status = 429 =>
                LET old == RequestsOf(rate_limiter, rate_limiter'.client_id)
                    new == rate_limiter'.requests[rate_limiter'.client_id]
                IN  /\ Len(new) <= Len(old)
                    /\ \A i \in 1..Len(new) : \E j \in 1..Len(old) : new[i] = old[j]
         ]_vars

\* a client is refused while its list is full, having been admitted more
\* often than the limit before, and another client has a list of its own
C31_Witness ==
    /\ rate_limiter.status = 429
    /\ Len(rate_limiter.requests[rate_limiter.client_id])
           = rate_limiter.max_requests
    /\ Len(rate_limiter.admitted[rate_limiter.client_id])
           > rate_limiter.max_requests
    /\ \E c \in DOMAIN rate_limiter.requests :
          c # rate_limiter.client_id /\ rate_limiter.requests[c] # <<>>

====
